---- MODULE Spec2Model ----
(***************************************************************************)
(* Embedding quality measures of src/src/evaluation/measures.py:           *)
(* pairwise_distances, stress, RMSE, get_neighbours_and_ranks,             *)
(* trustworthiness, continuity and neighbouhood_loss.                      *)
(*                                                                         *)
(* A point cloud is an n x 1 matrix with integer entries, written as the   *)
(* sequence of its n rows.  For such clouds every Euclidean distance       *)
(* ((x_i - x_j)^2)^0.5 is an integer, which IEEE doubles represent and     *)
(* compute exactly, so distance matrices, their squares and the sums of    *)
(* those are exact here.  A scalar result is kept as the exact fraction    *)
(* num/den of the value the code returns (of its square, for the two       *)
(* measures that end in a square root).  Indices and ranks are 0-based as  *)
(* in the code; At(s, i) reads position i of a 0-based array.              *)
(***************************************************************************)
EXTENDS Integers, Sequences, FiniteSets

VARIABLES X, Z, k, op, result, pc

vars == <<X, Z, k, op, result, pc>>

\* Largest number of rows of a point cloud.
MaxN == 3
\* Coordinates of the points range over 0..MaxCoord.
MaxCoord == 1

Coords == 0..MaxCoord
Clouds == UNION {[1..n -> Coords] : n \in 1..MaxN}
\* Neighbourhood sizes passed by a caller: valid ones and invalid ones
\* (negative, zero, and at least the number of rows).
Ks == (0 - 1)..MaxN

At(s, i) == s[i + 1]
Max(a, b) == IF a >= b THEN a ELSE b
Min(a, b) == IF a <= b THEN a ELSE b
Range(s) == {s[i] : i \in DOMAIN s}

RECURSIVE SetSum(_, _)
SetSum(f, S) ==
  IF S = {} THEN 0
  ELSE LET x == CHOOSE y \in S : TRUE IN f[x] + SetSum(f, S \ {x})

\* v ** 0.5 for a perfect square v.
Sqrt(v) == CHOOSE r \in 0..v : r * r = v

\* D[i][j] = sum((X[j] - X[i])**2, -1)**0.5, rows of one column.
pairwise_distances(P) ==
  [i \in 1..Len(P) |-> [j \in 1..Len(P) |-> Sqrt((P[j] - P[i]) * (P[j] - P[i]))]]

\* Shapes (n, n) and (m, m) broadcast iff n = m or one of them is 1.
Broadcastable(n, m) == n = m \/ n = 1 \/ m = 1

\* Entry (i, j) of an (n, n) matrix stretched to the broadcast shape.
BAt(D, i, j) == IF Len(D) = 1 THEN D[1][1] ELSE D[i][j]

\* np.square(A).sum()
SumSquares(D) ==
  LET n == Len(D)
      row == [i \in 1..n |-> SetSum([j \in 1..n |-> D[i][j] * D[i][j]], 1..n)]
  IN  SetSum(row, 1..n)

\* np.square(A + B).sum(): the sign slip of the difference.
SumSquaredSums(DX, DZ) ==
  LET n == Max(Len(DX), Len(DZ))
      sq(i, j) == (BAt(DX, i, j) + BAt(DZ, i, j)) * (BAt(DX, i, j) + BAt(DZ, i, j))
      row == [i \in 1..n |-> SetSum([j \in 1..n |-> sq(i, j)], 1..n)]
  IN  SetSum(row, 1..n)

\* np.square(A - B).sum() over the broadcast shape.
SumSquaredDifferences(DX, DZ) ==
  LET n == Max(Len(DX), Len(DZ))
      sq(i, j) == (BAt(DX, i, j) - BAt(DZ, i, j)) * (BAt(DX, i, j) - BAt(DZ, i, j))
      row == [i \in 1..n |-> SetSum([j \in 1..n |-> sq(i, j)], 1..n)]
  IN  SetSum(row, 1..n)

Error(e) == [kind |-> e, num |-> 0, den |-> 0]
Scalar(a, b) == [kind |-> "ok", num |-> a, den |-> b]

\* np.float64 division a / b followed by np.sqrt: 0/0 is nan, a/0 is inf
\* (numpy warns and goes on); the record is the square of the result.
FloatSqrtDiv(a, b) ==
  IF b # 0 THEN Scalar(a, b)
  ELSE IF a = 0 THEN Error("nan") ELSE Error("inf")

stress(P, Q) ==
  LET DX == pairwise_distances(P)
      DZ == pairwise_distances(Q)
  IN  IF ~Broadcastable(Len(DX), Len(DZ)) THEN Error("ValueError")
      ELSE FloatSqrtDiv(SumSquaredDifferences(DX, DZ), SumSquares(DZ))

RMSE(P, Q) ==
  LET DX == pairwise_distances(P)
      DZ == pairwise_distances(Q)
      n  == Len(DX)
  IN  IF ~Broadcastable(Len(DX), Len(DZ)) THEN Error("ValueError")
      ELSE FloatSqrtDiv(SumSquaredDifferences(DX, DZ), n * n)

\* Python's a[start:stop] on an array of length n: a negative bound counts
\* from the end, and both bounds are clamped to 0..n.
slice(a, start, stop) ==
  LET n == Len(a)
      norm(v) == IF v < 0 THEN Max(v + n, 0) ELSE Min(v, n)
  IN  IF norm(stop) <= norm(start) THEN <<>>
      ELSE SubSeq(a, norm(start) + 1, norm(stop))

\* One step of a stable sort: index j goes behind every index already placed
\* whose key is not larger.
RECURSIVE InsertStable(_, _, _)
InsertStable(s, j, a) ==
  IF s = <<>> THEN <<j>>
  ELSE IF At(a, Head(s)) <= At(a, j)
       THEN <<Head(s)>> \o InsertStable(Tail(s), j, a)
       ELSE <<j>> \o s

RECURSIVE ArgsortUpTo(_, _)
ArgsortUpTo(a, m) ==
  IF m = 0 THEN <<>> ELSE InsertStable(ArgsortUpTo(a, m - 1), m - 1, a)

\* A sort that is not stable: among equal keys the later index comes first.
RECURSIVE InsertUnstable(_, _, _)
InsertUnstable(s, j, a) ==
  IF s = <<>> THEN <<j>>
  ELSE IF At(a, Head(s)) < At(a, j)
       THEN <<Head(s)>> \o InsertUnstable(Tail(s), j, a)
       ELSE <<j>> \o s

RECURSIVE ArgsortUnstableUpTo(_, _)
ArgsortUnstableUpTo(a, m) ==
  IF m = 0 THEN <<>> ELSE InsertUnstable(ArgsortUnstableUpTo(a, m - 1), m - 1, a)

argsort_unstable(a) == ArgsortUnstableUpTo(a, Len(a))

\* np.argsort(a, kind='stable') of one row: the 0-based indices of a in
\* ascending order of their entries, equal entries in index order.
argsort(a) == ArgsortUpTo(a, Len(a))

\* The slice that keeps column 0: X_ranks[:, 0:k+1].
neighbourhood_with_first(order, kk) == slice(order, 0, kk + 1)

\* X_ranks[:, 1:k+1] on one row.
neighbourhood_row(order, kk) == slice(order, 1, kk + 1)

get_neighbours_and_ranks(P, kk) ==
  LET D == pairwise_distances(P)
      order == [i \in 1..Len(P) |-> argsort(D[i])]
  IN  [kind |-> "ok",
       neighbourhood |-> [i \in 1..Len(P) |-> neighbourhood_row(order[i], kk)],
       ranks |-> [i \in 1..Len(P) |-> argsort(order[i])]]

\* np.setdiff1d(a, b): the values of a that are not in b.
setdiff1d(a, b) == Range(a) \ Range(b)

\* np.intersect1d(a, b): the values in both.
intersect1d(a, b) == Range(a) \cap Range(b)

\* The loop of trustworthiness over row in range(X_ranks.shape[0]): it
\* indexes Z_neighbourhood[row] and X_ranks[row, neighbour].
TrustLoopIndexError(XG, ZG) ==
  \E row \in 0..(Len(XG.ranks) - 1) :
    \/ row >= Len(ZG.neighbourhood)
    \/ \E neighbour \in setdiff1d(At(ZG.neighbourhood, row), At(XG.neighbourhood, row)) :
         neighbour >= Len(At(XG.ranks, row))

\* result after the loop: the sum of X_ranks[row, neighbour] - k.
TrustPenalty(XG, ZG, kk) ==
  LET rows == 0..(Len(XG.ranks) - 1)
      missing(row) == setdiff1d(At(ZG.neighbourhood, row), At(XG.neighbourhood, row))
      rowsum == [row \in rows |->
                   SetSum([nb \in missing(row) |-> At(At(XG.ranks, row), nb) - kk],
                          missing(row))]
  IN  SetSum(rowsum, rows)

\* A normalisation with the sign of the last term flipped.
TrustDenominatorPlus(n, kk) == n * kk * (2 * n - 3 * kk + 1)

\* n * k * (2 * n - 3 * k - 1)
TrustDenominator(n, kk) == n * kk * (2 * n - 3 * kk - 1)

\* 1 - 2 / den * result as the fraction (den - 2 * result) / den; 2 / den
\* of Python ints raises ZeroDivisionError for den = 0.
trustworthiness(P, Q, kk) ==
  LET XG == get_neighbours_and_ranks(P, kk)
      ZG == get_neighbours_and_ranks(Q, kk)
      den == TrustDenominator(Len(P), kk)
  IN  IF TrustLoopIndexError(XG, ZG) THEN Error("IndexError")
      ELSE IF den = 0 THEN Error("ZeroDivisionError")
      ELSE Scalar(den - 2 * TrustPenalty(XG, ZG, kk), den)

continuity(P, Q, kk) == trustworthiness(Q, P, kk)

\* The sum of len(shared_neighbours) over the rows, times 1/k.
SharedTotal(XG, ZG, n) ==
  SetSum([row \in 0..(n - 1) |->
            Cardinality(intersect1d(At(XG.neighbourhood, row),
                                    At(ZG.neighbourhood, row)))],
         0..(n - 1))

\* The return without the complement: result / n.
neighbouhood_loss_uncomplemented(P, Q, kk) ==
  LET XG == get_neighbours_and_ranks(P, kk)
      ZG == get_neighbours_and_ranks(Q, kk)
      n  == Len(P)
  IN  IF kk = 0 THEN Error("ZeroDivisionError")
      ELSE IF n > Len(Q) THEN Error("IndexError")
      ELSE Scalar(SharedTotal(XG, ZG, n), kk * n)

\* 1.0 - result / n with result = sum(len / k), as (k*n - sum(len)) / (k*n).
\* Row 0 exists in both clouds, so k = 0 raises ZeroDivisionError there;
\* otherwise Z_neighbourhood[row] raises IndexError once row reaches the
\* number of rows of Z.
neighbouhood_loss(P, Q, kk) ==
  LET XG == get_neighbours_and_ranks(P, kk)
      ZG == get_neighbours_and_ranks(Q, kk)
      n  == Len(P)
  IN  IF kk = 0 THEN Error("ZeroDivisionError")
      ELSE IF n > Len(Q) THEN Error("IndexError")
      ELSE Scalar(kk * n - SharedTotal(XG, ZG, n), kk * n)

Init ==
  /\ X \in Clouds
  /\ Z \in Clouds
  /\ k \in Ks
  /\ op = "none"
  /\ result = Error("none")
  /\ pc = "call"

CallStress ==
  /\ pc = "call"
  /\ op' = "stress"
  /\ result' = stress(X, Z)
  /\ pc' = "done"
  /\ UNCHANGED <<X, Z, k>>

CallRMSE ==
  /\ pc = "call"
  /\ op' = "RMSE"
  /\ result' = RMSE(X, Z)
  /\ pc' = "done"
  /\ UNCHANGED <<X, Z, k>>

CallGetNeighboursAndRanks ==
  /\ pc = "call"
  /\ op' = "get_neighbours_and_ranks"
  /\ result' = get_neighbours_and_ranks(X, k)
  /\ pc' = "done"
  /\ UNCHANGED <<X, Z, k>>

CallTrustworthiness ==
  /\ pc = "call"
  /\ op' = "trustworthiness"
  /\ result' = trustworthiness(X, Z, k)
  /\ pc' = "done"
  /\ UNCHANGED <<X, Z, k>>

CallContinuity ==
  /\ pc = "call"
  /\ op' = "continuity"
  /\ result' = continuity(X, Z, k)
  /\ pc' = "done"
  /\ UNCHANGED <<X, Z, k>>

CallNeighbouhoodLoss ==
  /\ pc = "call"
  /\ op' = "neighbouhood_loss"
  /\ result' = neighbouhood_loss(X, Z, k)
  /\ pc' = "done"
  /\ UNCHANGED <<X, Z, k>>

Next ==
  \/ CallStress
  \/ CallRMSE
  \/ CallGetNeighboursAndRanks
  \/ CallTrustworthiness
  \/ CallContinuity
  \/ CallNeighbouhoodLoss

Spec == Init /\ [][Next]_vars

(***************************************************************************)
(* The claims.  n is the number of rows of X; a valid k is 1..n-1.         *)
(***************************************************************************)
Done(name) == pc = "done" /\ op = name
Rows(P) == 0..(Len(P) - 1)
ValidK(P) == 1 <= k /\ k <= Len(P) - 1
Exceptions == {"ValueError", "IndexError", "ZeroDivisionError"}
IsZero(r) == r.kind = "ok" /\ r.num = 0
IsOne(r) == r.kind = "ok" /\ r.num = r.den
InUnitInterval(r) ==
  /\ r.kind = "ok"
  /\ \/ r.den > 0 /\ 0 <= r.num /\ r.num <= r.den
     \/ r.den < 0 /\ r.den <= r.num /\ r.num <= 0
Coincident(P) == \A i, j \in DOMAIN P : P[i] = P[j]

\* C1: for n >= 2 and a valid k, no row i of the neighbourhood matrix
\* returned by get_neighbours_and_ranks holds i itself.
C1_NoOwnIndex ==
  (Done("get_neighbours_and_ranks") /\ Len(X) >= 2 /\ ValidK(X)) =>
    \A i \in Rows(X) : \A p \in 0..(k - 1) :
      At(At(result.neighbourhood, i), p) # i

\* C2: every row i of the rank matrix is a permutation of 0..n-1 whose 0
\* sits exactly at position i.
C2_RankZeroAtSelf ==
  Done("get_neighbours_and_ranks") =>
    \A i \in Rows(X) :
      /\ Len(At(result.ranks, i)) = Len(X)
      /\ Range(At(result.ranks, i)) = Rows(X)
      /\ \A j \in Rows(X) : (At(At(result.ranks, i), j) = 0) <=> (j = i)

\* C3: a neighbourhood-based operation called on n-row clouds with k <= 0
\* or k >= n ends in an error and returns nothing.
C3_InvalidKFails ==
  ( /\ pc = "done"
    /\ \/ op = "get_neighbours_and_ranks"
       \/ op \in {"trustworthiness", "continuity", "neighbouhood_loss"}
          /\ Len(Z) = Len(X)
    /\ (k <= 0 \/ k >= Len(X)) )
  => result.kind \in Exceptions

\* C4: with different numbers of rows in X and Z every measure ends in an
\* error and returns no value.
C4_ShapeMismatchFails ==
  ( /\ pc = "done"
    /\ op \in {"stress", "RMSE", "trustworthiness", "continuity", "neighbouhood_loss"}
    /\ Len(X) # Len(Z) )
  => result.kind \in Exceptions

\* C5: for clouds of equal size n and 1 <= k, 2k < n, trustworthiness and
\* continuity lie in [0, 1].
C5_TrustInUnitInterval ==
  ( /\ pc = "done"
    /\ op \in {"trustworthiness", "continuity"}
    /\ Len(X) = Len(Z)
    /\ 1 <= k /\ 2 * k < Len(X) )
  => InUnitInterval(result)

\* C6 as stated: stress(X, X) and RMSE(X, X) return 0 for every X, n >= 1.
C6_SelfDistortionZero ==
  (pc = "done" /\ op \in {"stress", "RMSE"} /\ X = Z) => IsZero(result)

\* C6 as amended: RMSE(X, X) returns 0 for every X; stress(X, X) returns 0
\* when X has two rows that differ, and is 0/0 = nan when n = 1 or all rows
\* coincide.
C6_SelfDistortionZeroOrNan ==
  /\ (Done("RMSE") /\ X = Z) => IsZero(result)
  /\ (Done("stress") /\ X = Z /\ ~Coincident(X)) => IsZero(result)
  /\ (Done("stress") /\ X = Z /\ Coincident(X)) => result.kind = "nan"

C6_Witness ==
  /\ Done("stress") /\ X = Z /\ Len(X) = 3 /\ ~Coincident(X)
  /\ IsZero(result) /\ result.den > 0

\* C7: for n >= 2 and a valid k, neighbouhood_loss(X, X, k) is exactly 0,
\* and each row of the neighbourhood matrix holds k pairwise distinct
\* indices.
C7_SelfLossZero ==
  /\ (Done("neighbouhood_loss") /\ X = Z /\ Len(X) >= 2 /\ ValidK(X))
       => IsZero(result)
  /\ (Done("get_neighbours_and_ranks") /\ Len(X) >= 2 /\ ValidK(X))
       => \A i \in Rows(X) :
            /\ Len(At(result.neighbourhood, i)) = k
            /\ Cardinality(Range(At(result.neighbourhood, i))) = k

C7_Witness ==
  /\ Done("neighbouhood_loss") /\ X = Z /\ Len(X) = 3 /\ k = 2
  /\ X[1] = X[2] /\ X[2] # X[3]
  /\ IsZero(result)

NeighbourSet(P, i) == Range(At(get_neighbours_and_ranks(P, k).neighbourhood, i))

\* C8: for clouds of equal size n >= 2 and a valid k, neighbouhood_loss lies
\* in [0, 1], is 0 exactly when every point's two neighbourhoods are equal
\* as sets, and 1 exactly when they are disjoint for every point.
C8_LossRange ==
  (Done("neighbouhood_loss") /\ Len(X) = Len(Z) /\ Len(X) >= 2 /\ ValidK(X)) =>
    /\ InUnitInterval(result)
    /\ IsZero(result) <=>
         \A i \in Rows(X) : NeighbourSet(X, i) = NeighbourSet(Z, i)
    /\ IsOne(result) <=>
         \A i \in Rows(X) : NeighbourSet(X, i) \cap NeighbourSet(Z, i) = {}

C8_Witness ==
  /\ Done("neighbouhood_loss") /\ Len(X) = 3 /\ Len(Z) = 3 /\ k = 1
  /\ IsOne(result)
  /\ \A i \in Rows(X) : NeighbourSet(X, i) \cap NeighbourSet(Z, i) = {}

\* C9: when 2n - 3k - 1 = 0 for a valid k, trustworthiness and continuity
\* of any two n-row clouds end in a division-by-zero failure.
C9_ZeroDenominatorRaises ==
  ( /\ pc = "done"
    /\ op \in {"trustworthiness", "continuity"}
    /\ Len(X) = Len(Z)
    /\ ValidK(X)
    /\ 2 * Len(X) - 3 * k - 1 = 0 )
  => result.kind = "ZeroDivisionError"

C9_Witness ==
  /\ Done("trustworthiness") /\ Len(X) = 2 /\ Len(Z) = 2 /\ k = 1
  /\ X = Z
  /\ result.kind = "ZeroDivisionError"

\* The reference of C10: j comes before l in the ordering of row i when its
\* pair (distance from i, index) is the smaller one.
RefBefore(P, i, j, l) ==
  LET D == pairwise_distances(P)
  IN  \/ At(At(D, i), j) < At(At(D, i), l)
      \/ At(At(D, i), j) = At(At(D, i), l) /\ j < l
RefPosition(P, i, j) == Cardinality({l \in Rows(P) : RefBefore(P, i, l, j)})
RefAtPosition(P, i, p) == CHOOSE j \in Rows(P) : RefPosition(P, i, j) = p

\* C10: for a valid k, neighbourhood row i is positions 1..k of the indices
\* sorted by (distance from i, index), ranks[i][j] is the position of j in
\* that ordering, and j is listed in row i iff 1 <= ranks[i][j] <= k.
C10_MatchesReference ==
  (Done("get_neighbours_and_ranks") /\ ValidK(X)) =>
    \A i \in Rows(X) :
      /\ Len(At(result.neighbourhood, i)) = k
      /\ \A p \in 1..k :
           At(At(result.neighbourhood, i), p - 1) = RefAtPosition(X, i, p)
      /\ \A j \in Rows(X) :
           /\ At(At(result.ranks, i), j) = RefPosition(X, i, j)
           /\ (j \in Range(At(result.neighbourhood, i))) <=>
                (1 <= At(At(result.ranks, i), j) /\ At(At(result.ranks, i), j) <= k)

C10_Witness ==
  /\ Done("get_neighbours_and_ranks") /\ Len(X) = 3 /\ k = 1
  /\ X[1] = X[3] /\ X[1] # X[2]
  /\ At(result.neighbourhood, 1) = <<0>>
  /\ At(result.ranks, 1) = <<1, 0, 2>>
====
